---- MODULE Spec2Model ----
(***************************************************************************)
(* A model of woolf's feature-extraction core (src/fset_manager.py):       *)
(*   - AQuoteProcess.windows, the sliding-window generator;                *)
(*   - QuotePoint, the token-boundary strategy built on it;                *)
(*   - InternalStyle, the whole-sentence strategy;                         *)
(*   - split_sentences / tokenize_corpus, the span-preserving tokenizers.  *)
(* Strings are sequences of one-character strings, so that slicing,        *)
(* lower-casing, underscore removal and formatting are computed.  Spans    *)
(* are Python's half-open, 0-based (start, end) pairs, written <<s, e>>.   *)
(***************************************************************************)
EXTENDS Integers, Sequences, FiniteSets, TLC

VARIABLES
    proc,          \* which operation this run executes
    \* ---- AQuoteProcess.windows(seq, window_size) and its consumer
    seq,           \* the input sequence
    window_size,   \* the window_size argument
    consumed,      \* how many items of seq the for loop has taken
    window,        \* the deque `window`
    lists,         \* the list objects made by list(window), in creation order
    yielded,       \* the references yielded so far (0: the deque itself)
    \* ---- get_all_training_features(tagged_tokens), both strategies
    corpus,        \* tagged_tokens: the sentences, [[((TOKEN, TAG), (START, END))]]
    sent_idx,      \* how many sentences the outer loop has finished
    in_call,       \* TRUE while get_training_features runs on a sentence
    training_features,  \* the list being returned
    raised,        \* TRUE once an exception has escaped
    \* ---- QuotePoint
    history_size,  \* self.history_size
    is_context,    \* self.is_context (the name of a predicate of the context)
    is_target,     \* self.is_target (the name of a predicate of the context)
    context,       \* <<>>, or <<c>> for the last FeatureContext made
    \* ---- InternalStyle
    is_quote,      \* self.is_quote (the name of a predicate of (token, tag))
    feature_set,   \* the dict `feature_set`, a function from its keys
    spans,         \* the list `spans`
    tag,           \* the local `tag`
    \* ---- split_sentences and the two tokenize_corpus methods
    data,          \* the contents of the file being read
    parts,         \* the list ps.split_quoted_quotes(data) returned
    part_idx,      \* how many of its partitions are finished
    segment_start, \* the local `segment_start`
    text,          \* the string given to tokenizer.span_tokenize
    offset,        \* the offset argument of split_sentences
    sent_end,      \* span_tokenize's position: the end of its last span
    sent_span,     \* <<>>, or <<start, end>> as span_tokenize last yielded it
    sent_tokens,   \* the sentence last yielded: [(token, (start, end))]
    emitted_end,   \* the largest token end yielded for this file before it
    \* ---- build_trainer and tag_token_spans
    tagged_sents,  \* build_trainer's tagged_sents: the training sentences
    default_tag,   \* build_trainer's default_tag
    tagger1,       \* the table the unigram tagger learnt from tagged_sents
    tagger2,       \* the table the bigram tagger learnt from tagged_sents
    tagger3,       \* the table the unigram tagger learnt from the names
    sentences,     \* tag_token_spans' sentences: [[(token, (start, end))]]
    tagged_out,    \* tag_token_spans' result list (its local tagged_sents)
    tags,          \* the tags tagger.tag has chosen so far for one sentence
    \* ---- find_quoted_quotes
    input_text,    \* the text searched
    match_pos,     \* where re.finditer resumes: the end of its last match
    matches,       \* the spans (start, end) of the matches found so far
    returned,      \* TRUE once list(re.finditer(..)) is complete and returned
    \* ---- VectorSpace
    by_index,      \* self.by_index: index -> token
    by_token,      \* self.by_token: token -> index
    mode,          \* "idle", or the method that is running
    token_seq,     \* vectorize's token_seq
    taken,         \* how many tokens of token_seq the loop has taken
    v_list,        \* vectorize's list `v`
    vectors,       \* vectorize_corpus' first list `vectors`, as far as built
    last_op,       \* the method that returned last
    arg,           \* the key given to the lookup that returned last
    result,        \* what the last call returned
    aborted        \* TRUE once vectorize has raised 'Invalid index'

vars == <<proc, seq, window_size, consumed, window, lists, yielded,
          corpus, sent_idx, in_call, training_features, raised,
          history_size, is_context, is_target, context,
          is_quote, feature_set, spans, tag,
          data, parts, part_idx, segment_start, text, offset,
          sent_end, sent_span, sent_tokens, emitted_end,
          tagged_sents, default_tag, tagger1, tagger2, tagger3,
          sentences, tagged_out, tags,
          input_text, match_pos, matches, returned,
          by_index, by_token, mode, token_seq, taken, v_list, vectors,
          last_op, arg, result, aborted>>

winVars == <<seq, window_size, consumed, window, lists, yielded>>

corpusVars == <<corpus, sent_idx, in_call, training_features, raised>>

qpVars == <<history_size, is_context, is_target, context>>

isVars == <<is_quote, feature_set, spans, tag>>

tokVars == <<data, parts, part_idx, segment_start, text, offset,
             sent_end, sent_span, sent_tokens, emitted_end>>

tagVars == <<tagged_sents, default_tag, tagger1, tagger2, tagger3,
             sentences, tagged_out, tags>>

\* the variables of the operations modelled after the tokenizers
fqVars == <<input_text, match_pos, matches, returned>>

vsVars == <<by_index, by_token, mode, token_seq, taken, v_list, vectors,
            last_op, arg, result, aborted>>

extVars == <<tagVars, fqVars, vsVars>>

----------------------------------------------------------------------------
(* Bounds of the model.                                                    *)

\* longest input sequence given to windows()
MaxSeqLen == 5
\* largest window_size given to windows()
MaxWindow == 3
\* most tokens in a tagged corpus
MaxTokens == 4
\* most sentences in a tagged corpus
MaxSents == 2
\* largest history_size a QuotePoint is configured with
MaxHistory == 2
\* longest text given to split_sentences or read by the base tokenize_corpus
MaxText == 4
\* longest file read by InternalStyle.tokenize_corpus
MaxData == 3
\* most partitions ps.split_quoted_quotes returns
MaxParts == 2
\* most tokens in the training corpus given to build_trainer
MaxTrain == 2
\* most tokens in the sentences given to tag_token_spans
MaxTagged == 2
\* longest text given to find_quoted_quotes
MaxQuoted == 6
\* longest token sequence given to vectorize
MaxDoc == 2
\* most documents in a corpus given to vectorize_corpus
MaxDocs == 2

----------------------------------------------------------------------------
(* Helpers.                                                                *)

SeqsUpTo(S, n) == UNION {[1..m -> S] : m \in 0..n}

Min(a, b) == IF a < b THEN a ELSE b

Max(a, b) == IF a > b THEN a ELSE b

\* Python's s[lo:hi] for 0 <= lo, 0 <= hi (0-based, half-open, clamped).
Slice(s, lo, hi) == SubSeq(s, lo + 1, Min(hi, Len(s)))

----------------------------------------------------------------------------
(* The variables of the operations a run does not execute.                 *)

IdleWindows ==
    /\ lists = <<>>
    /\ yielded = <<>>

IdleCorpus ==
    /\ corpus = <<>>
    /\ sent_idx = 0
    /\ in_call = FALSE
    /\ training_features = <<>>
    /\ raised = FALSE

IdleQuotePoint ==
    /\ history_size = 0
    /\ is_context = "none"
    /\ is_target = "none"
    /\ context = <<>>

IdleInternalStyle ==
    /\ is_quote = "none"
    /\ feature_set = <<>>
    /\ spans = <<>>
    /\ tag = FALSE

IdleTokenize ==
    /\ data = <<>>
    /\ parts = <<>>
    /\ part_idx = 0
    /\ segment_start = 0
    /\ text = <<>>
    /\ offset = 0
    /\ sent_end = 0
    /\ sent_span = <<>>
    /\ sent_tokens = <<>>
    /\ emitted_end = 0

IdleTagger ==
    /\ tagged_sents = <<>>
    /\ default_tag = "none"
    /\ tagger1 = <<>>
    /\ tagger2 = <<>>
    /\ tagger3 = <<>>
    /\ sentences = <<>>
    /\ tagged_out = <<>>
    /\ tags = <<>>

IdleQuotes ==
    /\ input_text = <<>>
    /\ match_pos = 0
    /\ matches = <<>>
    /\ returned = FALSE

IdleVectorSpace ==
    /\ by_index = <<>>
    /\ by_token = <<>>
    /\ mode = "idle"
    /\ token_seq = <<>>
    /\ taken = 0
    /\ v_list = <<>>
    /\ vectors = <<>>
    /\ last_op = "none"
    /\ arg = 0
    /\ result = [kind |-> "none"]
    /\ aborted = FALSE

IdleExt == IdleTagger /\ IdleQuotes /\ IdleVectorSpace

----------------------------------------------------------------------------
(* AQuoteProcess.windows                                                   *)

\* mutant: pops as soon as the deque is full, before it ever reaches the size
PushWindowEager(w, item, k) ==
    LET a == Append(w, item)
    IN  IF Len(a) >= k THEN Tail(a) ELSE a

\* window.append(item); if len(window) > window_size: window.popleft()
PushWindow(w, item, k) ==
    LET a == Append(w, item)
    IN  IF Len(a) > k THEN Tail(a) ELSE a

\* mutant: `yield window`, the deque object itself
YieldDeque(n) == 0

\* `yield list(window)`: the reference yielded is the n-th fresh list
YieldedRef(n) == n

\* the object a yielded reference denotes now
Deref(r) == IF r = 0 THEN window ELSE lists[r]

\* mutant: the deque of the previous call is used again
SameWindow(old) == old

\* `window = collections.deque()`: every call of windows() starts an empty deque
NewWindow(old) == <<>>

\* the inputs: every sequence over two items, and the sequences 1..n
WinInputs ==
    SeqsUpTo({1, 2}, MaxSeqLen) \cup {[i \in 1..n |-> i] : n \in 0..MaxSeqLen}

InitWindows ==
    /\ proc = "windows"
    /\ IdleExt
    /\ seq \in WinInputs
    /\ window_size \in 1..MaxWindow
    /\ consumed = 0
    /\ window = <<>>
    /\ lists = <<>>
    /\ yielded = <<>>
    /\ IdleCorpus
    /\ IdleQuotePoint
    /\ IdleInternalStyle
    /\ IdleTokenize

\* one iteration of `for item in seq`, up to and including the yield
WindowsStep ==
    /\ proc = "windows"
    /\ consumed < Len(seq)
    /\ consumed' = consumed + 1
    /\ window' = PushWindow(window, seq[consumed + 1], window_size)
    /\ lists' = Append(lists, window')
    /\ yielded' = Append(yielded, YieldedRef(Len(lists) + 1))
    /\ UNCHANGED <<proc, extVars, seq, window_size>>
    /\ UNCHANGED <<corpusVars, qpVars, isVars, tokVars>>

WindowsDone == proc = "windows" /\ consumed = Len(seq)

NextWindows == WindowsStep

SpecWindows == InitWindows /\ [][NextWindows]_vars

----------------------------------------------------------------------------
(* C1, C2: the windows                                                     *)

YieldedLen(i) == Len(Deref(yielded[i]))

CountLen(P(_)) == Cardinality({i \in 1..Len(yielded) : P(YieldedLen(i))})

IsFull(n) == n = window_size

IsShort(n) == n < window_size

\* C1: every yielded window has at most window_size items; the lengths never
\* decrease and stay at window_size once they reach it; one window is yielded
\* per item taken; and once the input of length n is exhausted there are
\* n - k + 1 windows of length k when n >= k (none otherwise) and min(k-1, n)
\* shorter leading windows.
C1_WindowSizes ==
    proc = "windows" =>
        /\ Len(yielded) = consumed
        /\ \A i \in 1..Len(yielded) : YieldedLen(i) \in 1..window_size
        /\ \A i \in 1..(Len(yielded) - 1) :
              /\ YieldedLen(i) <= YieldedLen(i + 1)
              /\ YieldedLen(i) = window_size => YieldedLen(i + 1) = window_size
        /\ WindowsDone =>
              /\ CountLen(IsFull) =
                    (IF Len(seq) >= window_size
                     THEN Len(seq) - window_size + 1 ELSE 0)
              /\ CountLen(IsShort) = Min(window_size - 1, Len(seq))
              /\ \A i \in 1..Len(yielded) :
                    IsShort(YieldedLen(i)) => i <= CountLen(IsShort)

\* C1 witness: an exhausted input longer than a window of size >= 2, so that
\* both short leading windows and several full windows were yielded.
C1_Witness ==
    /\ WindowsDone
    /\ window_size >= 2
    /\ Len(seq) > window_size + 1

\* C2: the i-th yielded window is the last min(i, k) of the first i items, in
\* order, at every later moment too (a yielded list is never changed by a
\* later step).
C2_WindowContents ==
    proc = "windows" =>
        \A i \in 1..Len(yielded) :
            Deref(yielded[i]) = SubSeq(seq, Max(1, i - window_size + 1), i)

\* C2 witness: windows([1,2,3,4,5], 3) has yielded [1],[1,2],[1,2,3],[2,3,4],
\* [3,4,5].
C2_Witness ==
    /\ WindowsDone
    /\ seq = <<1, 2, 3, 4, 5>>
    /\ window_size = 3
    /\ [i \in 1..Len(yielded) |-> Deref(yielded[i])] =
          << <<1>>, <<1, 2>>, <<1, 2, 3>>, <<2, 3, 4>>, <<3, 4, 5>> >>

----------------------------------------------------------------------------
(* Tagged corpora: [[((TOKEN, TAG), (START, END))]]                        *)

\* (token, tag) pairs as a tagger returns them; strings are character lists
HeTok == << <<"h", "e">>, <<"P", "P", "S">> >>

SaidTok == << <<"s", "a", "i", "d">>, <<"V", "B", "D">> >>

CaretTok == << <<"^">>, <<"^">> >>

RECURSIVE SpanStart(_, _)
\* the tokens of a document lie one character apart, from offset 0
SpanStart(flat, i) ==
    IF i = 1 THEN 0 ELSE SpanStart(flat, i - 1) + Len(flat[i - 1][1]) + 1

\* ((token, tag), (start, end)) for every token of the document
Spanned(flat) ==
    [i \in 1..Len(flat) |->
        <<flat[i], <<SpanStart(flat, i), SpanStart(flat, i) + Len(flat[i][1])>> >>]

RECURSIVE SumSeq(_)
SumSeq(s) == IF s = <<>> THEN 0 ELSE Head(s) + SumSeq(Tail(s))

\* the sentence lengths that cut n tokens into at most m sentences
Cuts(n, m) == {lens \in SeqsUpTo(0..n, m) : SumSeq(lens) = n}

\* the document's tokens cut into sentences of the given lengths
CutAt(toks, lens) ==
    [j \in 1..Len(lens) |->
        SubSeq(toks, SumSeq(SubSeq(lens, 1, j - 1)) + 1,
                     SumSeq(SubSeq(lens, 1, j)))]

\* every corpus of at most MaxSents sentences and MaxTokens tokens over V
Corpora(V) ==
    UNION {{CutAt(Spanned(flat), lens) : lens \in Cuts(Len(flat), MaxSents)} :
              flat \in SeqsUpTo(V, MaxTokens)}

\* tagged_token: ((TOKEN, TAG), (START, END)) -> TaggedToken
tagged_token(token_span) ==
    [token |-> token_span[1][1], tag |-> token_span[1][2],
     start |-> token_span[2][1], end |-> token_span[2][2]]

----------------------------------------------------------------------------
(* QuotePoint                                                              *)

\* the predicates a caller may configure is_target and is_context with
TargetPreds == {"always", "current_is_word"}

ContextPreds == {"quote_follows", "quote_in_history"}

\* the value of the configured predicate on a FeatureContext
EvalPred(name, c) ==
    CASE name = "always" -> TRUE
      [] name = "current_is_word" -> c.current.token # <<"^">>
      [] name = "quote_follows" -> c.lookahead.token = <<"^">>
      [] name = "quote_in_history" ->
            \E i \in 1..Len(c.history) : c.history[i].token = <<"^">>

\* mutant: make_context is attempted on one-token windows too
TooShortOffByOne(w) == Len(w) < 1

\* `if len(window) < 2: continue`
TooShort(w) == Len(w) < 2

\* Python's window[:-n]: -0 is 0, so window[:-0] is empty
SliceBeforeLast(w, n) ==
    IF n = 0 THEN <<>> ELSE SubSeq(w, 1, Max(0, Len(w) - n))

\* mutant: the lookahead is taken as the current token
CurrentOfLast(w) == tagged_token(w[Len(w)])

\* tagged_token(window[-2])
CurrentOf(w) == tagged_token(w[Len(w) - 1])

\* QuotePoint.make_context, for a window of at least two tokens
make_context(w, h) ==
    [history |-> [i \in 1..Len(SliceBeforeLast(w, h)) |->
                      tagged_token(SliceBeforeLast(w, h)[i])],
     current |-> CurrentOf(w),
     lookahead |-> tagged_token(w[Len(w)])]

\* QuotePoint.get_features: keys 'token<n>' and 'tag<n>' as <<"token", n>>,
\* <<"tag", n>>; n = 0 is current, n >= 1 the n-th token back in the history
get_features(c) ==
    [key \in {"token", "tag"} \X (0..Len(c.history)) |->
        LET t == IF key[2] = 0 THEN c.current
                 ELSE c.history[Len(c.history) - key[2] + 1]
        IN  IF key[1] = "token" THEN t.token ELSE t.tag]

\* QuotePoint.get_tag
get_tag(features, c) == EvalPred(is_context, c)

\* mutant: every window of two or more tokens is a candidate
IsTargetIgnored(c) == TRUE

\* `if self.is_target(context)`
IsTarget(c) == EvalPred(is_target, c)

QPVocab == {HeTok, CaretTok}

InitQuotePoint ==
    /\ proc = "QuotePoint"
    /\ IdleExt
    /\ corpus \in Corpora(QPVocab)
    /\ history_size \in 0..MaxHistory
    /\ is_target \in TargetPreds
    /\ is_context \in ContextPreds
    /\ sent_idx = 0
    /\ in_call = FALSE
    /\ training_features = <<>>
    /\ raised = FALSE
    /\ context = <<>>
    /\ seq = <<>>
    /\ window_size = 0
    /\ consumed = 0
    /\ window = <<>>
    /\ IdleWindows
    /\ IdleInternalStyle
    /\ IdleTokenize

\* get_all_training_features: `for sent in tagged_tokens` takes the next
\* sentence and get_training_features(sent) starts; window_size is
\* history_size + 2 and windows() starts with an empty deque
QPCall ==
    /\ proc = "QuotePoint"
    /\ ~raised
    /\ ~in_call
    /\ sent_idx < Len(corpus)
    /\ in_call' = TRUE
    /\ seq' = corpus[sent_idx + 1]
    /\ window_size' = history_size + 2
    /\ consumed' = 0
    /\ window' = NewWindow(window)
    /\ context' = <<>>
    /\ UNCHANGED <<proc, extVars, lists, yielded, corpus, sent_idx, training_features,
                   raised, history_size, is_context, is_target, isVars,
                   tokVars>>

\* one iteration of `for window in self.windows(...)`: windows() takes the
\* next token and yields, then the loop body runs on the yielded window
QPStep ==
    /\ proc = "QuotePoint"
    /\ ~raised
    /\ in_call
    /\ consumed < Len(seq)
    /\ consumed' = consumed + 1
    /\ window' = PushWindow(window, seq[consumed + 1], window_size)
    /\ IF TooShort(window')
       THEN UNCHANGED <<training_features, raised, context>>
       ELSE IF Len(window') < 2
       THEN \* window[-2] raises IndexError
            /\ raised' = TRUE
            /\ UNCHANGED <<training_features, context>>
       ELSE LET c == make_context(window', history_size)
                features == get_features(c)
            IN  /\ context' = <<c>>
                /\ raised' = FALSE
                /\ training_features' =
                      IF IsTarget(c)
                      THEN Append(training_features,
                                  <<features, <<c.current.start, c.current.end>>,
                                    get_tag(features, c)>>)
                      ELSE training_features
    /\ UNCHANGED <<proc, extVars, seq, window_size, lists, yielded, corpus, sent_idx,
                   in_call, history_size, is_context, is_target, isVars,
                   tokVars>>

\* windows() is exhausted: get_training_features(sent) ends and the outer
\* loop has finished the sentence
QPReturn ==
    /\ proc = "QuotePoint"
    /\ ~raised
    /\ in_call
    /\ consumed = Len(seq)
    /\ in_call' = FALSE
    /\ sent_idx' = sent_idx + 1
    /\ UNCHANGED <<proc, extVars, winVars, corpus, training_features, raised, qpVars,
                   isVars, tokVars>>

NextQuotePoint == QPCall \/ QPStep \/ QPReturn

SpecQuotePoint == InitQuotePoint /\ [][NextQuotePoint]_vars

----------------------------------------------------------------------------
(* C3, C4, C5: QuotePoint.get_training_features                            *)

\* the i-th window of a sentence: the last min(i, h + 2) of its first i tokens
WindowAt(sent, i) == SubSeq(sent, Max(1, i - (history_size + 2) + 1), i)

\* the context the code builds for the i-th window of a sentence (i >= 2)
ContextAt(sent, i) == make_context(WindowAt(sent, i), history_size)

RECURSIVE TargetWindows(_, _, _)
\* <<j, i>> for every window i <= n of sentence j that has two or more tokens
\* and whose context satisfies is_target, in window order
TargetWindows(j, sent, n) ==
    IF n = 0 THEN <<>>
    ELSE LET rest == TargetWindows(j, sent, n - 1)
         IN  IF n >= 2 /\ EvalPred(is_target, ContextAt(sent, n))
             THEN Append(rest, <<j, n>>) ELSE rest

\* how many windows of sentence j have been processed so far
WindowsDoneOf(j) ==
    IF j <= sent_idx THEN Len(corpus[j])
    ELSE IF j = sent_idx + 1 /\ in_call THEN consumed ELSE 0

RECURSIVE TargetsUpTo(_)
\* the target windows of sentences 1..j processed so far, in corpus order
TargetsUpTo(j) ==
    IF j = 0 THEN <<>>
    ELSE TargetsUpTo(j - 1) \o TargetWindows(j, corpus[j], WindowsDoneOf(j))

ExpectedTargets == TargetsUpTo(Len(corpus))

\* C3: the examples emitted so far are, in window order, exactly one per
\* processed window that has at least two tokens and whose context satisfies
\* is_target; each carries the features of that context and the label
\* is_context(context); shorter windows emit nothing and nothing is raised.
C3_ExamplesIffTarget ==
    proc = "QuotePoint" =>
        /\ ~raised
        /\ Len(training_features) = Len(ExpectedTargets)
        /\ \A m \in 1..Len(training_features) :
              LET c == ContextAt(corpus[ExpectedTargets[m][1]],
                                 ExpectedTargets[m][2])
              IN  /\ training_features[m][1] = get_features(c)
                  /\ training_features[m][3] = EvalPred(is_context, c)

\* C3 witness: a finished run over a corpus with a one-token sentence, in
\* which some window of two tokens was not a target and an example with a
\* positive label was emitted.
C3_Witness ==
    /\ proc = "QuotePoint"
    /\ sent_idx = Len(corpus)
    /\ \E j \in 1..Len(corpus) : Len(corpus[j]) = 1
    /\ \E j \in 1..Len(corpus) : \E i \in 2..Len(corpus[j]) :
          ~EvalPred(is_target, ContextAt(corpus[j], i))
    /\ \E m \in 1..Len(training_features) : training_features[m][3]

\* C4: the span of every emitted example is the span of the token just
\* before the last token of its window (the current token), which is never
\* the last token of the sentence; and the context made for a window has the
\* window's second-to-last token as current and its last as lookahead, which
\* is never the first token of the sentence.
C4_SpanIsCurrent ==
    proc = "QuotePoint" =>
        /\ Len(training_features) = Len(ExpectedTargets)
        /\ \A m \in 1..Len(training_features) :
              LET sent == corpus[ExpectedTargets[m][1]]
                  i == ExpectedTargets[m][2]
              IN  /\ training_features[m][2] = sent[i - 1][2]
                  /\ training_features[m][2] # sent[Len(sent)][2]
        /\ context # <<>> =>
              /\ context[1].current = tagged_token(window[Len(window) - 1])
              /\ context[1].lookahead = tagged_token(window[Len(window)])
              /\ context[1].lookahead = tagged_token(seq[consumed])
              /\ context[1].current # tagged_token(seq[Len(seq)])
              /\ context[1].lookahead # tagged_token(seq[1])

\* C4 witness: a finished sentence of three or more tokens from which two or
\* more examples were emitted.
C4_Witness ==
    /\ proc = "QuotePoint"
    /\ in_call
    /\ consumed = Len(seq)
    /\ Len(seq) >= 3
    /\ Len(training_features) >= 2
    /\ context # <<>>

\* C5: the history of the context made for a window is the window without
\* its last two tokens, in order (so it holds at most history_size tokens,
\* exactly history_size for a full window, and neither current nor lookahead).
C5_HistoryPrecedesCurrent ==
    (proc = "QuotePoint" /\ context # <<>>) =>
        /\ context[1].history =
              [i \in 1..(Len(window) - 2) |-> tagged_token(window[i])]
        /\ Len(context[1].history) <= history_size
        /\ Len(window) = history_size + 2 =>
              Len(context[1].history) = history_size

----------------------------------------------------------------------------
(* InternalStyle                                                           *)

\* the predicates a caller may configure is_quote with
QuotePreds == {"token_is_caret", "tag_is_VBD"}

\* the value of the configured is_quote on a (token, tag) pair
EvalQuote(name, token_tag) ==
    CASE name = "token_is_caret" -> token_tag[1] = <<"^">>
      [] name = "tag_is_VBD" -> token_tag[2] = <<"V", "B", "D">>

\* '{}/{}'.format(*token_tag)
FormatKey(token_tag) == token_tag[1] \o <<"/">> \o token_tag[2]

\* d[k] = v on a dict
DictSet(d, k, v) == [x \in (DOMAIN d) \cup {k} |-> IF x = k THEN v ELSE d[x]]

\* mutant: a delimiter toggles the label
ToggleAssign(t, q) == t # q

\* `tag |= self.is_quote(token_tag)`
OrAssign(t, q) == t \/ q

\* mutant: delimiters are not skipped
NeverDelimiter(token_tag) == FALSE

\* `if self.is_quote(token_tag): continue`
IsDelimiter(token_tag) == EvalQuote(is_quote, token_tag)

ISVocab == {HeTok, SaidTok, CaretTok}

InitInternalStyle ==
    /\ proc = "InternalStyle"
    /\ IdleExt
    /\ corpus \in Corpora(ISVocab)
    /\ is_quote \in QuotePreds
    /\ sent_idx = 0
    /\ in_call = FALSE
    /\ training_features = <<>>
    /\ raised = FALSE
    /\ feature_set = <<>>
    /\ spans = <<>>
    /\ tag = FALSE
    /\ seq = <<>>
    /\ consumed = 0
    /\ window_size = 0
    /\ window = <<>>
    /\ IdleWindows
    /\ IdleQuotePoint
    /\ IdleTokenize

\* get_all_training_features: `for sent in tagged_tokens` takes the next
\* sentence and get_training_features(sent) starts with an empty dict, an
\* empty span list and tag = False
ISCall ==
    /\ proc = "InternalStyle"
    /\ ~in_call
    /\ sent_idx < Len(corpus)
    /\ in_call' = TRUE
    /\ seq' = corpus[sent_idx + 1]
    /\ consumed' = 0
    /\ feature_set' = <<>>
    /\ spans' = <<>>
    /\ tag' = FALSE
    /\ UNCHANGED <<proc, extVars, window_size, window, lists, yielded, corpus, sent_idx,
                   training_features, raised, qpVars, is_quote, tokVars>>

\* one iteration of `for (token_tag, span) in tagged_tokens`
ISStep ==
    /\ proc = "InternalStyle"
    /\ in_call
    /\ consumed < Len(seq)
    /\ consumed' = consumed + 1
    /\ LET token_tag == seq[consumed + 1][1]
           span == seq[consumed + 1][2]
       IN  /\ tag' = OrAssign(tag, EvalQuote(is_quote, token_tag))
           /\ IF IsDelimiter(token_tag)
              THEN UNCHANGED <<feature_set, spans>>
              ELSE /\ feature_set' = DictSet(feature_set, FormatKey(token_tag), TRUE)
                   /\ spans' = Append(spans, span)
    /\ UNCHANGED <<proc, extVars, seq, window_size, window, lists, yielded, corpusVars,
                   qpVars, is_quote, tokVars>>

\* `return (feature_set, spans, tag)`, appended by get_all_training_features
ISReturn ==
    /\ proc = "InternalStyle"
    /\ in_call
    /\ consumed = Len(seq)
    /\ in_call' = FALSE
    /\ sent_idx' = sent_idx + 1
    /\ training_features' = Append(training_features, <<feature_set, spans, tag>>)
    /\ UNCHANGED <<proc, extVars, winVars, corpus, raised, qpVars, isVars, tokVars>>

NextInternalStyle == ISCall \/ ISStep \/ ISReturn

SpecInternalStyle == InitInternalStyle /\ [][NextInternalStyle]_vars

----------------------------------------------------------------------------
(* C6, C7: InternalStyle.get_training_features                             *)

\* the tokens of a sentence prefix that are not delimiters, in order
NonQuote(toks) == SelectSeq(toks, LAMBDA t : ~EvalQuote(is_quote, t[1]))

\* C6 for one (feature_set, spans) pair built from the tokens toks
ExcludesQuotes(fs, sp, toks) ==
    /\ DOMAIN fs = {FormatKey(NonQuote(toks)[i][1]) : i \in 1..Len(NonQuote(toks))}
    /\ \A k \in DOMAIN fs : fs[k] = TRUE
    /\ \A i \in 1..Len(toks) :
          EvalQuote(is_quote, toks[i][1]) =>
              /\ FormatKey(toks[i][1]) \notin DOMAIN fs
              /\ \A n \in 1..Len(sp) : sp[n] # toks[i][2]
    /\ sp = [i \in 1..Len(NonQuote(toks)) |-> NonQuote(toks)[i][2]]
    /\ Len(sp) = Len(toks) - Cardinality({i \in 1..Len(toks) :
                                             EvalQuote(is_quote, toks[i][1])})

\* C6: the feature set of every sentence has exactly the 'token/tag' keys of
\* its tokens that are not is_quote, each mapped to True, and no key of an
\* is_quote token; the span list is the spans of the non-quote tokens in
\* sentence order, one per non-quote token.  The same holds of the sentence
\* in progress for the tokens taken so far.
C6_QuotesExcluded ==
    proc = "InternalStyle" =>
        /\ Len(training_features) = sent_idx
        /\ \A j \in 1..Len(training_features) :
              ExcludesQuotes(training_features[j][1], training_features[j][2],
                             corpus[j])
        /\ in_call => ExcludesQuotes(feature_set, spans, SubSeq(seq, 1, consumed))

\* C6 witness: a returned sentence with a delimiter and a repeated non-quote
\* token: fewer keys than spans, fewer spans than tokens.
C6_Witness ==
    /\ proc = "InternalStyle"
    /\ \E j \in 1..Len(training_features) :
          /\ Cardinality(DOMAIN training_features[j][1]) >= 2
          /\ Cardinality(DOMAIN training_features[j][1])
                < Len(training_features[j][2])
          /\ Len(training_features[j][2]) < Len(corpus[j])

\* C7: the label of every sentence is positive exactly when one or more of
\* its own tokens is is_quote, whatever the other sentences hold; the label
\* in progress is positive exactly when a token taken so far is is_quote.
C7_LabelIffQuote ==
    proc = "InternalStyle" =>
        /\ \A j \in 1..Len(training_features) :
              training_features[j][3] =
                  (\E i \in 1..Len(corpus[j]) : EvalQuote(is_quote, corpus[j][i][1]))
        /\ in_call =>
              tag = (\E i \in 1..consumed : EvalQuote(is_quote, seq[i][1]))

\* C7 witness: a sentence with two delimiters labelled positive, followed by
\* a sentence without any labelled negative.
C7_Witness ==
    /\ proc = "InternalStyle"
    /\ Len(training_features) = 2
    /\ Cardinality({i \in 1..Len(corpus[1]) :
                       EvalQuote(is_quote, corpus[1][i][1])}) >= 2
    /\ training_features[1][3]
    /\ ~training_features[2][3]

----------------------------------------------------------------------------
(* split_sentences and tokenize_corpus                                     *)

Digits == {"0", "1", "2", "3", "4", "5", "6", "7", "8", "9"}

\* \w: letters, digits and the underscore
IsWordChar(c) == c \in {"a", "b", "A", "B", "_"} \cup Digits

\* the class ['"/^/,-:.;?!(0-9] of the pattern
PunctClass ==
    {"'", "\"", "/", "^", ",", "-", ":", ".", ";", "?", "!", "("} \cup Digits

\* str.lower() on one character
ToLower(c) == CASE c = "A" -> "a" [] c = "B" -> "b" [] OTHER -> c

\* match.group(0).lower().replace('_', '')
Normalize(m) ==
    SelectSeq([i \in 1..Len(m) |-> ToLower(m[i])], LAMBDA c : c # "_")

\* mutant: `\w` without the `+`
WordRunOne(s, p) == p

RECURSIVE WordRun(_, _)
\* where the run of word characters that covers s[p-1] ends (0-based,
\* exclusive): `\w+` is greedy
WordRun(s, p) ==
    IF p < Len(s) /\ IsWordChar(s[p + 1]) THEN WordRun(s, p + 1) ELSE p

RECURSIVE Scan(_, _)
\* the matches of the pattern in s from position p on, as (mstart, mend)
Scan(s, p) ==
    IF p >= Len(s) THEN <<>>
    ELSE IF IsWordChar(s[p + 1])
         THEN << <<p, WordRun(s, p + 1)>> >> \o Scan(s, WordRun(s, p + 1))
    ELSE IF s[p + 1] \in PunctClass
         THEN << <<p, p + 1>> >> \o Scan(s, p + 1)
    ELSE Scan(s, p + 1)

\* re.finditer(pattern, sent): the spans of the matches, left to right
FindIter(sent) == Scan(sent, 0)

\* the loop over the matches: (normalized token, (mstart+base, mend+base))
TokensOf(sent, base) ==
    [i \in 1..Len(FindIter(sent)) |->
        << Normalize(Slice(sent, FindIter(sent)[i][1], FindIter(sent)[i][2])),
           <<FindIter(sent)[i][1] + base, FindIter(sent)[i][2] + base>> >>]

\* mutant: the offset is left out of the spans
SegStartNoOffset(start, off) == start

\* seg_start = start + offset
SegStart(start, off) == start + off

\* what tokenizer.span_tokenize may yield next: a span of the text at or
\* after the end of the span before it
SentSpans(from, txt) ==
    {sp \in (from..Len(txt)) \X (from..Len(txt)) : sp[1] <= sp[2]}

\* the characters of the texts: a letter, the underscore, a digit, two
\* characters of the class and one character the pattern does not match
TokChars == {"B", "_", "1", ".", "^", " "}

\* the offsets split_sentences is called with
Offsets == {0, 3}

InitSplit ==
    /\ proc = "split_sentences"
    /\ text \in SeqsUpTo(TokChars, MaxText)
    /\ offset \in Offsets
    /\ data = <<>>

InitCorpus ==
    /\ proc = "tokenize_corpus"
    /\ data \in SeqsUpTo(TokChars, MaxText)
    /\ text = data
    /\ offset = 0

InitTokenize ==
    /\ InitSplit \/ InitCorpus
    /\ IdleExt
    /\ parts = <<>>
    /\ part_idx = 0
    /\ segment_start = 0
    /\ sent_end = 0
    /\ sent_span = <<>>
    /\ sent_tokens = <<>>
    /\ emitted_end = 0
    /\ seq = <<>>
    /\ window_size = 0
    /\ consumed = 0
    /\ window = <<>>
    /\ IdleWindows
    /\ IdleCorpus
    /\ IdleQuotePoint
    /\ IdleInternalStyle

\* split_sentences: one iteration of `for start, end in
\* tokenizer.span_tokenize(text)`, up to and including the yield
SSYield ==
    /\ proc = "split_sentences"
    /\ \E sp \in SentSpans(sent_end, text) :
          /\ sent_span' = sp
          /\ sent_end' = sp[2]
          /\ sent_tokens' =
                TokensOf(Slice(text, sp[1], sp[2]), SegStart(sp[1], offset))
    /\ UNCHANGED <<proc, extVars, winVars, corpusVars, qpVars, isVars, data, parts,
                   part_idx, segment_start, text, offset, emitted_end>>

\* AQuoteProcess.tokenize_corpus: one iteration of `for start, end in
\* tokenizer.span_tokenize(data)`, up to and including the yield
TCYield ==
    /\ proc = "tokenize_corpus"
    /\ \E sp \in SentSpans(sent_end, data) :
          /\ sent_span' = sp
          /\ sent_end' = sp[2]
          /\ sent_tokens' = TokensOf(Slice(data, sp[1], sp[2]), sp[1])
    /\ UNCHANGED <<proc, extVars, winVars, corpusVars, qpVars, isVars, data, parts,
                   part_idx, segment_start, text, offset, emitted_end>>

\* AQuoteProcess.tokenize_corpus: span_tokenize is exhausted and `for
\* filename in corpus` reads the next file (here one of the same contents)
TCNextFile ==
    /\ proc = "tokenize_corpus"
    /\ sent_span # <<>>
    /\ sent_end' = 0
    /\ sent_span' = <<>>
    /\ sent_tokens' = <<>>
    /\ UNCHANGED <<proc, extVars, winVars, corpusVars, qpVars, isVars, data, parts,
                   part_idx, segment_start, text, offset, emitted_end>>

NextTokenize == SSYield \/ TCYield \/ TCNextFile

SpecTokenize == InitTokenize /\ [][NextTokenize]_vars

----------------------------------------------------------------------------
(* C8, C9: the tokens of a sentence                                        *)

TokenizeRuns == {"split_sentences", "tokenize_corpus"}

\* the sentence last yielded, as a slice of the text
Sent == Slice(text, sent_span[1], sent_span[2])

\* the i-th token's span in the text, and in the sentence
TextSpan(i) == <<sent_tokens[i][2][1] - offset, sent_tokens[i][2][2] - offset>>

SentRel(i) == <<TextSpan(i)[1] - sent_span[1], TextSpan(i)[2] - sent_span[1]>>

\* C8: every token's span lies in [offset, offset + len(text)] and in its
\* sentence, is not empty, and delimits the slice of the text that,
\* lower-cased and with underscores removed, is the token; within a sentence
\* each span ends before the next begins.
C8_SpanFidelity ==
    (proc \in TokenizeRuns /\ sent_span # <<>>) =>
        \A i \in 1..Len(sent_tokens) :
            LET tok == sent_tokens[i][1]
                start == sent_tokens[i][2][1]
                end == sent_tokens[i][2][2]
            IN  /\ offset <= start /\ start < end /\ end <= offset + Len(text)
                /\ offset + sent_span[1] <= start
                /\ end <= offset + sent_span[2]
                /\ Normalize(Slice(text, start - offset, end - offset)) = tok
                /\ i < Len(sent_tokens) => end <= sent_tokens[i + 1][2][1]

\* C8 witness: split_sentences with a positive offset has yielded a sentence
\* that starts inside the text, with a token shorter than its span (an
\* underscore was removed) and a token after it.
C8_Witness ==
    /\ proc = "split_sentences"
    /\ offset > 0
    /\ sent_span # <<>>
    /\ sent_span[1] > 0
    /\ \E i \in 1..(Len(sent_tokens) - 1) :
          /\ Len(sent_tokens[i][1]) > 0
          /\ Len(sent_tokens[i][1]) < sent_tokens[i][2][2] - sent_tokens[i][2][1]

\* the punctuation the specification lists, and with the caret of the pattern
ListedPunct == {"'", "\"", "/", ",", "-", ":", ".", ";", "?", "!", "("}

PatternPunct == ListedPunct \cup {"^"}

\* the sub-tokenization rule for a punctuation set P, on the sentence last
\* yielded
SubTokenRule(P) ==
    /\ \A i \in 1..Len(sent_tokens) :
          LET a == SentRel(i)[1]
              b == SentRel(i)[2]
          IN  \/ /\ \A p \in (a + 1)..b : IsWordChar(Sent[p])
                 /\ a = 0 \/ ~IsWordChar(Sent[a])
                 /\ b = Len(Sent) \/ ~IsWordChar(Sent[b + 1])
              \/ /\ b = a + 1
                 /\ Sent[b] \in P
    /\ \A p \in 1..Len(Sent) :
          Cardinality({i \in 1..Len(sent_tokens) :
                          SentRel(i)[1] < p /\ p <= SentRel(i)[2]}) =
          (IF IsWordChar(Sent[p]) \/ Sent[p] \in P THEN 1 ELSE 0)

\* C9 as claimed: every token is a maximal run of word characters or one
\* character of ' " / , - : . ; ? ! ( ; every other character of the sentence
\* is in no token's span and every word or listed character in exactly one.
C9_ListedPunctOnly ==
    (proc \in TokenizeRuns /\ sent_span # <<>>) => SubTokenRule(ListedPunct)

\* C9 amended: the same with the caret in the punctuation set:
\* ' " / ^ , - : . ; ? ! (
C9_PatternPunct ==
    (proc \in TokenizeRuns /\ sent_span # <<>>) => SubTokenRule(PatternPunct)

\* C9 witness: a sentence with a run of two or more word characters holding
\* a digit, a caret token and a character that is dropped.
C9_Witness ==
    /\ proc \in TokenizeRuns
    /\ sent_span # <<>>
    /\ \E i \in 1..Len(sent_tokens) :
          /\ SentRel(i)[2] - SentRel(i)[1] >= 2
          /\ \E p \in (SentRel(i)[1] + 1)..SentRel(i)[2] : Sent[p] \in Digits
    /\ \E i \in 1..Len(sent_tokens) : sent_tokens[i][1] = <<"^">>
    /\ \E p \in 1..Len(Sent) : Sent[p] = " "

----------------------------------------------------------------------------
(* InternalStyle.tokenize_corpus                                           *)

\* the characters of the files: a letter, the underscore, a character of
\* the class and one character the pattern does not match
StyleChars == {"B", "_", "^", " "}

\* ps.split_quoted_quotes(data): any list of at most MaxParts strings, empty
\* ones too, that concatenate to data
SplitQuotedQuotes(d) == {CutAt(d, lens) : lens \in Cuts(Len(d), MaxParts)}

\* mutant: split_sentences is called without the offset (its default, 0)
OffsetDefault(base) == 0

\* split_sentences(span, tokenizer, segment_start): the offset argument
OffsetArg(base) == base

\* mutant: `segment_start = len(span)`
SetLen(base, span) == Len(span)

\* `segment_start += len(span)`
AddLen(base, span) == base + Len(span)

\* the largest end among the tokens of a sentence (0 for none)
MaxEnd(toks) ==
    LET ends == {toks[i][2][2] : i \in 1..Len(toks)} \cup {0}
    IN  CHOOSE m \in ends : \A x \in ends : x <= m

\* the partition `for span in ps.split_quoted_quotes(data)` takes after n
\* partitions are finished (none: the empty string)
PartAfter(ps, n) == IF n < Len(ps) THEN ps[n + 1] ELSE <<>>

InitStyleTokenize ==
    /\ proc = "InternalStyle.tokenize_corpus"
    /\ IdleExt
    /\ data \in SeqsUpTo(StyleChars, MaxData)
    /\ parts \in SplitQuotedQuotes(data)
    /\ part_idx = 0
    /\ segment_start = 0
    /\ text = PartAfter(parts, 0)
    /\ offset = OffsetArg(0)
    /\ sent_end = 0
    /\ sent_span = <<>>
    /\ sent_tokens = <<>>
    /\ emitted_end = 0
    /\ seq = <<>>
    /\ window_size = 0
    /\ consumed = 0
    /\ window = <<>>
    /\ IdleWindows
    /\ IdleCorpus
    /\ IdleQuotePoint
    /\ IdleInternalStyle

\* split_sentences on the current partition: one iteration of its loop, and
\* tokenize_corpus yields the sentence on
STYield ==
    /\ proc = "InternalStyle.tokenize_corpus"
    /\ part_idx < Len(parts)
    /\ \E sp \in SentSpans(sent_end, text) :
          /\ sent_span' = sp
          /\ sent_end' = sp[2]
          /\ sent_tokens' =
                TokensOf(Slice(text, sp[1], sp[2]), SegStart(sp[1], offset))
    /\ emitted_end' = Max(emitted_end, MaxEnd(sent_tokens))
    /\ UNCHANGED <<proc, extVars, winVars, corpusVars, qpVars, isVars, data, parts,
                   part_idx, segment_start, text, offset>>

\* split_sentences is exhausted: `segment_start += len(span)`, and the loop
\* takes the next partition, if any, calling split_sentences on it
STEndPart ==
    /\ proc = "InternalStyle.tokenize_corpus"
    /\ part_idx < Len(parts)
    /\ segment_start' = AddLen(segment_start, text)
    /\ part_idx' = part_idx + 1
    /\ text' = PartAfter(parts, part_idx + 1)
    /\ offset' = IF part_idx + 1 < Len(parts)
                 THEN OffsetArg(segment_start') ELSE offset
    /\ sent_end' = 0
    /\ sent_span' = <<>>
    /\ UNCHANGED <<proc, extVars, winVars, corpusVars, qpVars, isVars, data, parts,
                   sent_tokens, emitted_end>>

\* the partitions are exhausted: `for filename in corpus` reads the next file
\* (here one of the same contents) and `segment_start = 0`
STNextFile ==
    /\ proc = "InternalStyle.tokenize_corpus"
    /\ part_idx = Len(parts)
    /\ part_idx' = 0
    /\ segment_start' = 0
    /\ text' = PartAfter(parts, 0)
    /\ offset' = OffsetArg(0)
    /\ sent_end' = 0
    /\ sent_span' = <<>>
    /\ sent_tokens' = <<>>
    /\ emitted_end' = 0
    /\ UNCHANGED <<proc, extVars, winVars, corpusVars, qpVars, isVars, data, parts>>

NextStyleTokenize == STYield \/ STEndPart \/ STNextFile

SpecStyleTokenize == InitStyleTokenize /\ [][NextStyleTokenize]_vars

----------------------------------------------------------------------------
(* C10: document-absolute spans                                            *)

\* the total length of the first n partitions
TotalLen(ps, n) == SumSeq([i \in 1..n |-> Len(ps[i])])

\* C10: segment_start, and the offset split_sentences is called with for a
\* partition, is the total length of the partitions before it (0 at the
\* start of a file); every token's span delimits the slice of the file that,
\* lower-cased and with underscores removed, is the token; and every token
\* starts at or after the end of every token yielded before it for the file.
C10_DocumentAbsolute ==
    proc = "InternalStyle.tokenize_corpus" =>
        /\ segment_start = TotalLen(parts, part_idx)
        /\ part_idx < Len(parts) =>
              /\ text = parts[part_idx + 1]
              /\ offset = TotalLen(parts, part_idx)
        /\ \A i \in 1..Len(sent_tokens) :
              LET tok == sent_tokens[i][1]
                  start == sent_tokens[i][2][1]
                  end == sent_tokens[i][2][2]
              IN  /\ 0 <= start /\ start < end /\ end <= Len(data)
                  /\ Normalize(Slice(data, start, end)) = tok
                  /\ emitted_end <= start
                  /\ i < Len(sent_tokens) => end <= sent_tokens[i + 1][2][1]

\* C10 witness: in a partition that does not start the file, after tokens of
\* an earlier partition were yielded, a sentence is yielded with a token
\* shorter than its span.
C10_Witness ==
    /\ proc = "InternalStyle.tokenize_corpus"
    /\ part_idx >= 1
    /\ segment_start > 0
    /\ sent_span # <<>>
    /\ emitted_end > 0
    /\ \E i \in 1..Len(sent_tokens) :
          /\ Len(sent_tokens[i][1]) > 0
          /\ Len(sent_tokens[i][1]) < sent_tokens[i][2][2] - sent_tokens[i][2][1]

----------------------------------------------------------------------------
(* build_trainer: the chain of backoff taggers.  The taggers are nltk's    *)
(* SequentialBackoffTagger classes: tag_one asks each tagger of the chain  *)
(* in turn, and a ContextTagger learns only the contexts where its backoff *)
(* would not give the training tag.                                        *)

\* Python's None: the answer of a tagger that has no tag for the token
None == <<"None">>

PN == <<"P", "N">>

VBZ == <<"V", "B", "Z">>

NN == <<"N", "N">>

\* names.words(): the gazetteer (a stand-in for nltk's names corpus)
Names == << <<"A", "b">> >>

\* nltk.DefaultTagger('PN').tag([name.lower() for name in names.words()])
name_tagger ==
    << [i \in 1..Len(Names) |->
          << [k \in 1..Len(Names[i]) |-> ToLower(Names[i][k])], PN >>] >>

punctuation_tags == << << << <<"^">>, <<"^">> >>, << <<"\"">>, <<"\"">> >> >> >>

\* the regular expressions of `patterns`, by what they match on a token
\* (a token holds no newline): .*s$ as a suffix, .* as anything
Suffix(s) == [kind |-> "suffix", suffix |-> s]

patterns ==
    << <<Suffix(<<"i", "n", "g">>), <<"V", "B", "G">> >>,
       <<Suffix(<<"e", "d">>), <<"V", "B", "D">> >>,
       <<Suffix(<<"e", "s">>), VBZ>>,
       <<Suffix(<<"o", "u", "l", "d">>), <<"M", "D">> >>,
       <<Suffix(<<"'", "s">>), <<"N", "N", "$">> >>,
       <<Suffix(<<"s">>), <<"N", "N", "S">> >>,
       <<[kind |-> "cardinal"], <<"C", "D">> >>,
       <<Suffix(<<"l", "y">>), <<"R", "B">> >>,
       <<[kind |-> "any"], NN>> >>

IsDigits(s) == Len(s) > 0 /\ \A i \in 1..Len(s) : s[i] \in Digits

\* ^-?[0-9]+(.[0-9]+)?$ : the dot is unescaped and matches any character
Cardinal(tok) ==
    LET body == IF tok # <<>> /\ tok[1] = "-" THEN Tail(tok) ELSE tok
    IN  \/ IsDigits(body)
        \/ \E k \in 2..(Len(body) - 1) :
              /\ IsDigits(SubSeq(body, 1, k - 1))
              /\ IsDigits(SubSeq(body, k + 1, Len(body)))

\* re.match(regexp, token)
Matches(rx, tok) ==
    CASE rx.kind = "suffix" ->
            /\ Len(tok) >= Len(rx.suffix)
            /\ SubSeq(tok, Len(tok) - Len(rx.suffix) + 1, Len(tok)) = rx.suffix
      [] rx.kind = "cardinal" -> Cardinal(tok)
      [] rx.kind = "any" -> TRUE

RECURSIVE LastMatch(_, _)
\* mutant: the tag of the last rule that matches
LastMatch(rules, tok) ==
    IF rules = <<>> THEN None
    ELSE IF Matches(rules[Len(rules)][1], tok) THEN rules[Len(rules)][2]
    ELSE LastMatch(SubSeq(rules, 1, Len(rules) - 1), tok)

RECURSIVE FirstMatch(_, _)
\* RegexpTagger.choose_tag: the tag of the first rule, in list order, that matches
FirstMatch(rules, tok) ==
    IF rules = <<>> THEN None
    ELSE IF Matches(Head(rules)[1], tok) THEN Head(rules)[2]
    ELSE FirstMatch(Tail(rules), tok)

\* the taggers of a chain
ContextStage(n, table) == [kind |-> "context", n |-> n, table |-> table]

RegexpStage == [kind |-> "regexp"]

DefaultStage(dt) == [kind |-> "default", tag |-> dt]

\* dict.get(key)
Get(table, key) == IF key \in DOMAIN table THEN table[key] ELSE None

\* ContextTagger.context: a unigram tagger looks at the token, an n-gram
\* tagger at the n - 1 tags before it and the token (index counts from 1)
ContextOf(n, tokens, index, history) ==
    IF n = 1 THEN tokens[index]
    ELSE <<SubSeq(history, Max(1, index - n + 1), index - 1), tokens[index]>>

\* choose_tag of one tagger
choose_tag(stage, tokens, index, history) ==
    CASE stage.kind = "context" ->
            Get(stage.table, ContextOf(stage.n, tokens, index, history))
      [] stage.kind = "regexp" -> FirstMatch(patterns, tokens[index])
      [] stage.kind = "default" -> stage.tag

RECURSIVE tag_one(_, _, _, _)
\* SequentialBackoffTagger.tag_one: the first answer that is not None
tag_one(taggers, tokens, index, history) ==
    IF taggers = <<>> THEN None
    ELSE LET t == choose_tag(Head(taggers), tokens, index, history)
         IN  IF t # None THEN t
             ELSE tag_one(Tail(taggers), tokens, index, history)

\* ContextTagger._train, cutoff 0 ------------------------------------------

\* the positions (sentence, index) of a training corpus
Positions(train) ==
    UNION {{<<s, i>> : i \in 1..Len(train[s])} : s \in 1..Len(train)}

\* tokens, tags = zip(*sentence)
TokensAt(train, s) == [i \in 1..Len(train[s]) |-> train[s][i][1]]

TagsAt(train, s) == [i \in 1..Len(train[s]) |-> train[s][i][2]]

TagAt(train, pos) == train[pos[1]][pos[2]][2]

\* self.context(tokens, index, tags[:index])
TrainContext(n, train, pos) ==
    ContextOf(n, TokensAt(train, pos[1]), pos[2],
              SubSeq(TagsAt(train, pos[1]), 1, pos[2] - 1))

\* the contexts of the positions where the backoff chain gives another tag
useful_contexts(n, train, backoff) ==
    {TrainContext(n, train, pos) :
        pos \in {p \in Positions(train) :
                    TagAt(train, p) #
                        tag_one(backoff, TokensAt(train, p[1]), p[2],
                                SubSeq(TagsAt(train, p[1]), 1, p[2] - 1))}}

\* fd[context][tag]
hits(n, train, c, t) ==
    Cardinality({p \in Positions(train) :
                    TrainContext(n, train, p) = c /\ TagAt(train, p) = t})

\* the tags fd[context].max() can return: a tie is settled by dict order
best_tags(n, train, c) ==
    LET seen == {TagAt(train, p) :
                    p \in {q \in Positions(train) : TrainContext(n, train, q) = c}}
    IN  {t \in seen : \A u \in seen : hits(n, train, c, t) >= hits(n, train, c, u)}

\* every _context_to_tag table training can end with
Tables(n, train, backoff) ==
    LET useful == useful_contexts(n, train, backoff)
        alltags == {TagAt(train, p) : p \in Positions(train)}
    IN  {f \in [useful -> alltags] : \A c \in useful : f[c] \in best_tags(n, train, c)}

\* the chains build_trainer builds, each tagger in front of its backoff ------

\* regexp_tagger = nltk.RegexpTagger(patterns, backoff=tagger0)
regexp_tagger(dt) == <<RegexpStage, DefaultStage(dt)>>

\* punctuation_tagger = nltk.UnigramTagger(punctuation_tags, backoff=regexp_tagger)
punctuation_tagger(dt) ==
    <<ContextStage(1, CHOOSE f \in Tables(1, punctuation_tags, regexp_tagger(dt)) : TRUE)>>
        \o regexp_tagger(dt)

\* mutant: the unigram tagger in front of the bigram tagger
ChainUnigramFirst(t3, t2, t1, dt) ==
    <<ContextStage(1, t3), ContextStage(1, t1), ContextStage(2, t2)>>
        \o punctuation_tagger(dt)

\* tagger1 = nltk.UnigramTagger(tagged_sents, backoff=punctuation_tagger)
Chain1(t1, dt) == <<ContextStage(1, t1)>> \o punctuation_tagger(dt)

\* tagger2 = nltk.BigramTagger(tagged_sents, backoff=tagger1)
Chain2(t2, t1, dt) == <<ContextStage(2, t2)>> \o Chain1(t1, dt)

\* tagger3 = nltk.UnigramTagger(name_tagger, backoff=tagger2): the tagger returned
Chain3(t3, t2, t1, dt) == <<ContextStage(1, t3)>> \o Chain2(t2, t1, dt)

\* tag_token_spans ----------------------------------------------------------

\* Python's zip: as long as the shorter list
Zip(a, b) == [i \in 1..Min(Len(a), Len(b)) |-> <<a[i], b[i]>>]

\* the tokens of the training corpora and the tags they carry
TrainTokens == {<<"a", "b">>, <<"e", "s">>}

TrainTags == {PN, VBZ}

\* the tokens given to the tagger: <<"x">> is in no training source
TagTokens == TrainTokens \cup {<<"^">>, <<"x">>}

\* the training corpora: build_trainer returns only if no sentence is empty
TrainCorpora ==
    UNION {{CutAt(flat, lens) :
                lens \in {l \in Cuts(Len(flat), Len(flat)) :
                             \A j \in 1..Len(l) : l[j] > 0}} :
              flat \in SeqsUpTo(TrainTokens \X TrainTags, MaxTrain)}

\* (token, span) for every token of a document
TokenSpans(toks) ==
    LET flat == [i \in 1..Len(toks) |-> <<toks[i], <<>> >>]
    IN  [i \in 1..Len(toks) |->
            <<toks[i], <<SpanStart(flat, i), SpanStart(flat, i) + Len(toks[i])>> >>]

\* the documents given to tag_token_spans, as one or two sentences
TagInputs ==
    UNION {{CutAt(TokenSpans(toks), <<k, Len(toks) - k>>) : k \in 0..Len(toks)}
              \cup {CutAt(TokenSpans(toks), <<Len(toks)>>)} :
              toks \in SeqsUpTo(TagTokens, MaxTagged)}

InitTagger ==
    /\ proc = "tag_token_spans"
    /\ tagged_sents \in TrainCorpora
    /\ default_tag = <<"D", "E", "F", "A", "U", "L", "T">>
    /\ tagger1 \in Tables(1, tagged_sents, punctuation_tagger(default_tag))
    /\ tagger2 \in Tables(2, tagged_sents, Chain1(tagger1, default_tag))
    /\ tagger3 \in Tables(1, name_tagger, Chain2(tagger2, tagger1, default_tag))
    /\ sentences \in TagInputs
    /\ tagged_out = <<>>
    /\ tags = <<>>
    /\ IdleQuotes
    /\ IdleVectorSpace
    /\ IdleWindows
    /\ seq = <<>>
    /\ window_size = 0
    /\ consumed = 0
    /\ window = <<>>
    /\ IdleCorpus
    /\ IdleQuotePoint
    /\ IdleInternalStyle
    /\ IdleTokenize

\* to_tag = [token for (token, _) in sent]
to_tag == [i \in 1..Len(sentences[Len(tagged_out) + 1]) |->
              sentences[Len(tagged_out) + 1][i][1]]

\* the tagger build_trainer returned
Tagger == Chain3(tagger3, tagger2, tagger1, default_tag)

\* one round of the loop of tagger.tag(to_tag): tags.append(self.tag_one(..))
TagOne ==
    /\ proc = "tag_token_spans"
    /\ Len(tagged_out) < Len(sentences)
    /\ Len(tags) < Len(to_tag)
    /\ tags' = Append(tags, tag_one(Tagger, to_tag, Len(tags) + 1, tags))
    /\ UNCHANGED <<proc, winVars, corpusVars, qpVars, isVars, tokVars,
                   tagged_sents, default_tag, tagger1, tagger2, tagger3,
                   sentences, tagged_out, fqVars, vsVars>>

\* tagger.tag returns list(zip(tokens, tags)); the sentence is appended
\* as list(zip(tagged, spans))
TagSentence ==
    /\ proc = "tag_token_spans"
    /\ Len(tagged_out) < Len(sentences)
    /\ Len(tags) = Len(to_tag)
    /\ LET sent == sentences[Len(tagged_out) + 1]
           spans_ == [i \in 1..Len(sent) |-> sent[i][2]]
       IN  tagged_out' = Append(tagged_out, Zip(Zip(to_tag, tags), spans_))
    /\ tags' = <<>>
    /\ UNCHANGED <<proc, winVars, corpusVars, qpVars, isVars, tokVars,
                   tagged_sents, default_tag, tagger1, tagger2, tagger3,
                   sentences, fqVars, vsVars>>

NextTagger == TagOne \/ TagSentence

SpecTagger == InitTagger /\ [][NextTagger]_vars

\* the answers of the six stages for token i of a sentence, in the order
\* names, bigram, unigram, punctuation, patterns, default
StageAnswers(tokens, i, history) ==
    <<Get(tagger3, tokens[i]),
      Get(tagger2, <<SubSeq(history, Max(1, i - 1), i - 1), tokens[i]>>),
      Get(tagger1, tokens[i]),
      IF tokens[i] \in {<<"^">>, <<"\"">>} THEN tokens[i] ELSE None,
      FirstMatch(patterns, tokens[i]),
      default_tag>>

\* the first stage that has an answer (7: none has)
FirstStage(answers) ==
    IF \E k \in 1..Len(answers) : answers[k] # None
    THEN CHOOSE k \in 1..Len(answers) :
            answers[k] # None /\ \A m \in 1..(k - 1) : answers[m] = None
    ELSE Len(answers) + 1

\* the tags chosen so far for sentence j: finished, in progress or not begun
TagsOf(j) ==
    IF j <= Len(tagged_out)
    THEN [i \in 1..Len(tagged_out[j]) |-> tagged_out[j][i][1][2]]
    ELSE IF j = Len(tagged_out) + 1 THEN tags ELSE <<>>

\* C11: the tagger build_trainer returns gives every token of every sentence
\* exactly one tag, in input order and with the token's span, never None;
\* the tag is the answer of the first of the stages names, bigram, unigram,
\* punctuation, patterns, default that has one.
C11_ChainTotalAndOrdered ==
    proc = "tag_token_spans" =>
        /\ Len(tagged_out) <= Len(sentences)
        /\ \A j \in 1..Len(sentences) :
              LET toks == [i \in 1..Len(sentences[j]) |-> sentences[j][i][1]]
                  done == TagsOf(j)
              IN  /\ Len(done) <= Len(toks)
                  /\ j <= Len(tagged_out) =>
                        /\ Len(tagged_out[j]) = Len(sentences[j])
                        /\ \A i \in 1..Len(sentences[j]) :
                              /\ tagged_out[j][i][1][1] = sentences[j][i][1]
                              /\ tagged_out[j][i][2] = sentences[j][i][2]
                  /\ \A i \in 1..Len(done) :
                        LET answers ==
                                StageAnswers(toks, i, SubSeq(done, 1, i - 1))
                        IN  /\ done[i] # None
                            /\ FirstStage(answers) <= Len(answers)
                            /\ done[i] = answers[FirstStage(answers)]

\* a finished sentence whose first token the bigram stage answers although
\* the unigram stage has another answer, and whose second token is in no
\* training source and is tagged by the patterns
C11_Witness ==
    /\ proc = "tag_token_spans"
    /\ Len(tagged_out) >= 1
    /\ Len(tagged_out[1]) = 2
    /\ LET toks == [i \in 1..2 |-> sentences[1][i][1]]
           first == StageAnswers(toks, 1, <<>>)
       IN  /\ first[1] = None
           /\ first[2] # None
           /\ first[3] # None
           /\ first[2] # first[3]
           /\ tagged_out[1][1][1][2] = first[2]
           /\ toks[2] = <<"x">>
           /\ tagged_out[1][2][1][2] = NN

----------------------------------------------------------------------------
(* C12: get_all_training_features of both strategies                       *)

SpecTraining ==
    /\ InitQuotePoint \/ InitInternalStyle
    /\ [][NextQuotePoint \/ NextInternalStyle]_vars

\* QuotePoint.get_training_features(sent) on its own, cut after n windows:
\* the examples of the target windows of sent, in window order
QPSentence(sent, n) ==
    LET tw == TargetWindows(0, sent, n)
    IN  [m \in 1..Len(tw) |->
            LET c == ContextAt(sent, tw[m][2])
                features == get_features(c)
            IN  <<features, <<c.current.start, c.current.end>>,
                  get_tag(features, c)>>]

RECURSIVE QPConcat(_)
\* the per-sentence results of sentences 1..j, one after the other
QPConcat(j) ==
    IF j = 0 THEN <<>>
    ELSE QPConcat(j - 1) \o QPSentence(corpus[j], WindowsDoneOf(j))

\* InternalStyle.get_training_features(sent) on its own
ISSentence(sent) ==
    LET kept == SelectSeq(sent, LAMBDA t : ~EvalQuote(is_quote, t[1]))
    IN  <<[k \in {FormatKey(kept[i][1]) : i \in 1..Len(kept)} |-> TRUE],
          [i \in 1..Len(kept) |-> kept[i][2]],
          \E i \in 1..Len(sent) : EvalQuote(is_quote, sent[i][1])>>

\* C12: get_all_training_features returns the per-sentence results in corpus
\* order, nothing dropped, merged or moved.  For QuotePoint the list is the
\* concatenation, sentence by sentence, of what get_training_features gives
\* for that sentence alone, and the window in use holds tokens of the
\* current sentence only; for InternalStyle the list has exactly one entry
\* per sentence taken, the entry of that sentence, empty sentences included.
C12_CorpusOrder ==
    /\ proc = "QuotePoint" =>
          /\ ~raised
          /\ training_features = QPConcat(Len(corpus))
          /\ in_call =>
                /\ seq = corpus[sent_idx + 1]
                /\ window = SubSeq(seq, Max(1, consumed - window_size + 1),
                                   consumed)
    /\ proc = "InternalStyle" =>
          /\ Len(training_features) = sent_idx
          /\ \A j \in 1..sent_idx : training_features[j] = ISSentence(corpus[j])
          /\ ~in_call /\ sent_idx = Len(corpus) =>
                Len(training_features) = Len(corpus)

\* C12 witness: QuotePoint has finished a corpus of two sentences; each gave
\* an example, and the two examples have the same features and label: both
\* are in the list, in sentence order.
C12_Witness ==
    /\ proc = "QuotePoint"
    /\ sent_idx = Len(corpus)
    /\ Len(corpus) = 2
    /\ Len(QPSentence(corpus[1], Len(corpus[1]))) >= 1
    /\ Len(QPSentence(corpus[2], Len(corpus[2]))) >= 1
    /\ LET n1 == Len(QPSentence(corpus[1], Len(corpus[1])))
       IN  /\ training_features[1][1] = training_features[n1 + 1][1]
           /\ training_features[1][3] = training_features[n1 + 1][3]
           /\ training_features[1][2] # training_features[n1 + 1][2]

\* the same for InternalStyle: a finished corpus of an empty sentence and a
\* sentence of delimiters only gives two equal entries
C12_WitnessStyle ==
    /\ proc = "InternalStyle"
    /\ ~in_call
    /\ sent_idx = Len(corpus)
    /\ Len(corpus) = 2
    /\ corpus[1] = <<>>
    /\ corpus[2] # <<>>
    /\ Len(training_features) = 2
    /\ training_features[1][1] = training_features[2][1]
    /\ training_features[1][2] = training_features[2][2]

----------------------------------------------------------------------------
(* find_quoted_quotes (src/punctuated_spaces.py)                           *)

\* the quotation mark of the pattern r'"[^"]+"'
PatternQuote == "\""

RECURSIVE RunEnd(_, _, _)
\* [^q]+ from the 1-based index p: the index of the next q, or Len(s) + 1
RunEnd(s, q, p) ==
    IF p > Len(s) \/ s[p] = q THEN p ELSE RunEnd(s, q, p + 1)

\* the match of q[^q]+q that starts at the 0-based position pos, as a
\* span (start, end), or <<>> if there is none
MatchSpan(s, q, pos) ==
    IF pos < Len(s) /\ s[pos + 1] = q
    THEN LET e == RunEnd(s, q, pos + 2)
         IN  IF e > pos + 2 /\ e <= Len(s) THEN <<pos, e>> ELSE <<>>
    ELSE <<>>

RECURSIVE NextMatch(_, _, _)
\* re.finditer's next match: the leftmost one at or after pos
NextMatch(s, q, pos) ==
    IF pos >= Len(s) THEN <<>>
    ELSE IF MatchSpan(s, q, pos) # <<>> THEN MatchSpan(s, q, pos)
    ELSE NextMatch(s, q, pos + 1)

\* the characters of the texts: both quotation marks, a letter, a space
QuotedChars == {"\"", "'", "a", " "}

InitQuotes ==
    /\ proc = "find_quoted_quotes"
    /\ input_text \in SeqsUpTo(QuotedChars, MaxQuoted)
    /\ match_pos = 0
    /\ matches = <<>>
    /\ returned = FALSE
    /\ IdleTagger
    /\ IdleVectorSpace
    /\ IdleWindows
    /\ seq = <<>>
    /\ window_size = 0
    /\ consumed = 0
    /\ window = <<>>
    /\ IdleCorpus
    /\ IdleQuotePoint
    /\ IdleInternalStyle
    /\ IdleTokenize

\* list(..) takes the next match of re.finditer
FQMatch ==
    /\ proc = "find_quoted_quotes"
    /\ ~returned
    /\ NextMatch(input_text, PatternQuote, match_pos) # <<>>
    /\ LET m == NextMatch(input_text, PatternQuote, match_pos)
       IN  /\ matches' = Append(matches, m)
           /\ match_pos' = m[2]
    /\ UNCHANGED <<proc, winVars, corpusVars, qpVars, isVars, tokVars, tagVars,
                   vsVars, input_text, returned>>

\* re.finditer is exhausted: the list is returned
FQReturn ==
    /\ proc = "find_quoted_quotes"
    /\ ~returned
    /\ NextMatch(input_text, PatternQuote, match_pos) = <<>>
    /\ returned' = TRUE
    /\ UNCHANGED <<proc, winVars, corpusVars, qpVars, isVars, tokVars, tagVars,
                   vsVars, input_text, match_pos, matches>>

NextQuotes == FQMatch \/ FQReturn

SpecQuotes == InitQuotes /\ [][NextQuotes]_vars

\* m.group(): the text of a match
Group(span) == Slice(input_text, span[1], span[2])

\* (a, b) spans a non-empty passage enclosed by a pair of the mark q
Enclosed(q, a, b) ==
    /\ 0 <= a /\ a + 3 <= b /\ b <= Len(input_text)
    /\ input_text[a + 1] = q
    /\ input_text[b] = q
    /\ \A i \in (a + 2)..(b - 1) : input_text[i] # q

\* the matches are in text order, do not overlap, and each is a passage
\* enclosed by a pair of a mark of Q; once the list is returned, every
\* passage enclosed by a pair of a mark of Q shares text with a match
FindsPassages(Q) ==
    /\ \A i \in 1..Len(matches) : \E q \in Q : Enclosed(q, matches[i][1], matches[i][2])
    /\ \A i \in 1..(Len(matches) - 1) : matches[i][2] <= matches[i + 1][1]
    /\ returned =>
          \A q \in Q : \A a \in 0..Len(input_text) : \A b \in 0..Len(input_text) :
              Enclosed(q, a, b) =>
                  \E i \in 1..Len(matches) :
                      matches[i][1] < b /\ a < matches[i][2]

\* C13: find_quoted_quotes returns, in text order and without overlap, one
\* match for each non-empty passage enclosed by a pair of quotation marks,
\* delimiters included, for double quotes and equally for single quotes.
C13_BothQuoteMarks ==
    proc = "find_quoted_quotes" => FindsPassages({"\"", "'"})

\* the half of C13 that the code does: the same for double quotes alone
C13_DoubleQuotes ==
    proc = "find_quoted_quotes" => FindsPassages({"\""})

\* a text with two double-quoted passages, both found
C13_DoubleWitness ==
    /\ proc = "find_quoted_quotes"
    /\ returned
    /\ Len(matches) = 2
    /\ Group(matches[1]) = <<"\"", "a", "\"">>

----------------------------------------------------------------------------
(* C14: the pattern stage of the chain                                     *)

Running == <<"r", "u", "n", "n", "i", "n", "g">>

Jumping == <<"j", "u", "m", "p", "i", "n", "g">>

Boxes == <<"b", "o", "x", "e", "s">>

VBG == <<"V", "B", "G">>

\* a training corpus that knows gerunds, as VBG or as NN, and inputs with a
\* gerund, a word in -es, a word no rule but the last matches and a caret
PatternTrain == {<<Running, VBG>>, <<Jumping, NN>>}

PatternTokens == {Jumping, Boxes, <<"x">>, <<"^">>}

\* the default_tag given to build_trainer: its default, or a tag of a rule
DefaultTags == {<<"D", "E", "F", "A", "U", "L", "T">>, NN}

InitPatterns ==
    /\ proc = "tag_token_spans"
    /\ tagged_sents \in
          UNION {{CutAt(flat, lens) :
                     lens \in {l \in Cuts(Len(flat), Len(flat)) :
                                  \A j \in 1..Len(l) : l[j] > 0}} :
                    flat \in SeqsUpTo(PatternTrain, MaxTrain)}
    /\ default_tag \in DefaultTags
    /\ tagger1 \in Tables(1, tagged_sents, punctuation_tagger(default_tag))
    /\ tagger2 \in Tables(2, tagged_sents, Chain1(tagger1, default_tag))
    /\ tagger3 \in Tables(1, name_tagger, Chain2(tagger2, tagger1, default_tag))
    /\ sentences \in
          UNION {{CutAt(TokenSpans(toks), <<k, Len(toks) - k>>) : k \in 0..Len(toks)}
                    \cup {CutAt(TokenSpans(toks), <<Len(toks)>>)} :
                    toks \in SeqsUpTo(PatternTokens, MaxTagged)}
    /\ tagged_out = <<>>
    /\ tags = <<>>
    /\ IdleQuotes
    /\ IdleVectorSpace
    /\ IdleWindows
    /\ seq = <<>>
    /\ window_size = 0
    /\ consumed = 0
    /\ window = <<>>
    /\ IdleCorpus
    /\ IdleQuotePoint
    /\ IdleInternalStyle
    /\ IdleTokenize

SpecPatterns == InitPatterns /\ [][NextTagger]_vars

EndsWith(tok, s) ==
    Len(tok) >= Len(s) /\ SubSeq(tok, Len(tok) - Len(s) + 1, Len(tok)) = s

\* the tags the stages above the default stage can give
SourceTags ==
    {tagged_sents[s][i][2] : <<s, i>> \in Positions(tagged_sents)}
        \cup {PN, <<"^">>, <<"\"">>}
        \cup {patterns[k][2] : k \in 1..Len(patterns)}

\* C14 for token i of a sentence with the tags chosen so far
PatternStageRule(toks, done, i) ==
    LET answers == StageAnswers(toks, i, SubSeq(done, 1, i - 1))
        tok == toks[i]
    IN  /\ FirstStage(answers) # 6
        /\ default_tag \notin SourceTags => done[i] # default_tag
        /\ (\A k \in 1..4 : answers[k] = None) =>
              /\ \E k \in 1..Len(patterns) :
                    /\ Matches(patterns[k][1], tok)
                    /\ \A m \in 1..(k - 1) : ~Matches(patterns[m][1], tok)
                    /\ done[i] = patterns[k][2]
              /\ EndsWith(tok, <<"i", "n", "g">>) => done[i] = VBG
              /\ EndsWith(tok, <<"e", "s">>) => done[i] = VBZ
              /\ (\A k \in 1..(Len(patterns) - 1) : ~Matches(patterns[k][1], tok))
                    => done[i] = NN

----------------------------------------------------------------------------
(* VectorSpace (src/punctuated_spaces.py)                                  *)

\* the tokens given to the space
VSTokens == {"a", "b", "c"}

\* mutant: the first index is 1
NewIndexFromOne(bt) == Cardinality(DOMAIN bt) + 1

\* `i = len(self.by_token)`
NewIndex(bt) == Cardinality(DOMAIN bt)

\* get_index(token): the index returned and the two dicts after the call
get_index(bt, bi, token) ==
    IF token \in DOMAIN bt
    THEN [i |-> bt[token], by_token |-> bt, by_index |-> bi]
    ELSE LET i == NewIndex(bt)
         IN  [i |-> i, by_token |-> DictSet(bt, token, i),
              by_index |-> DictSet(bi, i, token)]

\* [0] * n
Zeros(n) == [k \in 1..n |-> 0]

\* pad(array): np.concatenate((array, np.zeros(len(self) - len(array))))
pad(array) == array \o Zeros(Cardinality(DOMAIN by_index) - Len(array))

InitVectorSpace ==
    /\ proc = "VectorSpace"
    /\ by_index = <<>>
    /\ by_token = <<>>
    /\ mode = "idle"
    /\ token_seq = <<>>
    /\ taken = 0
    /\ v_list = <<>>
    /\ vectors = <<>>
    /\ last_op = "none"
    /\ arg = 0
    /\ result = [kind |-> "none"]
    /\ aborted = FALSE
    /\ IdleTagger
    /\ IdleQuotes
    /\ IdleWindows
    /\ seq = <<>>
    /\ window_size = 0
    /\ consumed = 0
    /\ window = <<>>
    /\ IdleCorpus
    /\ IdleQuotePoint
    /\ IdleInternalStyle
    /\ IdleTokenize

\* a caller may make the next call
CanCall == proc = "VectorSpace" /\ mode = "idle" /\ ~aborted

otherVars == <<proc, winVars, corpusVars, qpVars, isVars, tokVars, tagVars, fqVars>>

VSGetIndex ==
    /\ CanCall
    /\ \E token \in VSTokens :
          LET r == get_index(by_token, by_index, token)
          IN  /\ by_token' = r.by_token
              /\ by_index' = r.by_index
              /\ result' = [kind |-> "index", val |-> r.i]
              /\ arg' = token
    /\ last_op' = "get_index"
    /\ UNCHANGED <<otherVars, mode, token_seq, taken, v_list, vectors, aborted>>

\* lookup_token(i): self.by_index.get(i)
VSLookupToken ==
    /\ CanCall
    /\ \E i \in 0..Cardinality(VSTokens) :
          /\ result' = IF i \in DOMAIN by_index
                       THEN [kind |-> "token", val |-> by_index[i]]
                       ELSE [kind |-> "None"]
          /\ arg' = i
    /\ last_op' = "lookup_token"
    /\ UNCHANGED <<otherVars, by_index, by_token, mode, token_seq, taken, v_list,
                   vectors, aborted>>

\* lookup_index(token): self.by_token.get(token)
VSLookupIndex ==
    /\ CanCall
    /\ \E token \in VSTokens :
          /\ result' = IF token \in DOMAIN by_token
                       THEN [kind |-> "index", val |-> by_token[token]]
                       ELSE [kind |-> "None"]
          /\ arg' = token
    /\ last_op' = "lookup_index"
    /\ UNCHANGED <<otherVars, by_index, by_token, mode, token_seq, taken, v_list,
                   vectors, aborted>>

\* one round of `for token in token_seq` on the dicts and v of r
VecStep(r, token) ==
    LET g == get_index(r.by_token, r.by_index, token)
    IN  [by_token |-> g.by_token,
         by_index |-> g.by_index,
         v |-> IF g.i < Len(r.v) THEN [r.v EXCEPT ![g.i + 1] = @ + 1]
               ELSE IF g.i = Len(r.v) THEN Append(r.v, 1)
               ELSE r.v,
         \* raise Exception("Invalid index ..")
         aborted |-> g.i > Len(r.v)]

RECURSIVE VecLoop(_, _)
\* the rounds of the loop for the tokens of toks, until one raises
VecLoop(r, toks) ==
    IF toks = <<>> \/ r.aborted THEN r
    ELSE VecLoop(VecStep(r, Head(toks)), Tail(toks))

\* vectorize(token_seq) as one step: v = [0] * len(self.by_token), the loop
vectorize(bt, bi, toks) ==
    VecLoop([by_token |-> bt, by_index |-> bi,
             v |-> Zeros(Cardinality(DOMAIN bt)), aborted |-> FALSE], toks)

\* a call begins: the caller no longer looks at the last result
CallBegins ==
    /\ last_op' = "none"
    /\ arg' = 0
    /\ result' = [kind |-> "none"]

\* vectorize(token_seq) begins: v = [0] * len(self.by_token)
VSVectorize ==
    /\ CanCall
    /\ \E doc \in SeqsUpTo(VSTokens, MaxDoc) : token_seq' = doc
    /\ mode' = "vectorize"
    /\ taken' = 0
    /\ v_list' = Zeros(Cardinality(DOMAIN by_token))
    /\ CallBegins
    /\ UNCHANGED <<otherVars, by_index, by_token, vectors, aborted>>

\* one round of `for token in token_seq`
VSStep ==
    /\ proc = "VectorSpace"
    /\ mode = "vectorize"
    /\ ~aborted
    /\ taken < Len(token_seq)
    /\ LET r == VecStep([by_token |-> by_token, by_index |-> by_index,
                         v |-> v_list, aborted |-> FALSE],
                        token_seq[taken + 1])
       IN  /\ by_token' = r.by_token
           /\ by_index' = r.by_index
           /\ v_list' = r.v
           /\ aborted' = r.aborted
    /\ taken' = taken + 1
    /\ UNCHANGED <<otherVars, mode, token_seq, vectors, last_op, arg, result>>

\* return np.array(v); the locals of the call are gone
VSVectorizeReturn ==
    /\ proc = "VectorSpace"
    /\ mode = "vectorize"
    /\ ~aborted
    /\ taken = Len(token_seq)
    /\ result' = [kind |-> "vector", val |-> v_list]
    /\ last_op' = "vectorize"
    /\ mode' = "idle"
    /\ token_seq' = <<>>
    /\ taken' = 0
    /\ v_list' = <<>>
    /\ UNCHANGED <<otherVars, by_index, by_token, vectors, arg, aborted>>

\* vectorize_corpus(corpus) begins its first list comprehension
VSCorpus ==
    /\ CanCall
    /\ mode' = "vectorize_corpus"
    /\ vectors' = <<>>
    /\ CallBegins
    /\ UNCHANGED <<otherVars, by_index, by_token, token_seq, taken, v_list,
                   aborted>>

\* self.vectorize(doc) for the next document of the corpus
VCDoc ==
    /\ proc = "VectorSpace"
    /\ mode = "vectorize_corpus"
    /\ ~aborted
    /\ Len(vectors) < MaxDocs
    /\ \E doc \in SeqsUpTo(VSTokens, MaxDoc) :
          LET r == vectorize(by_token, by_index, doc)
          IN  /\ by_token' = r.by_token
              /\ by_index' = r.by_index
              /\ aborted' = r.aborted
              /\ vectors' = IF r.aborted THEN vectors ELSE Append(vectors, r.v)
    /\ UNCHANGED <<otherVars, mode, token_seq, taken, v_list, last_op, arg, result>>

\* the corpus is exhausted: every vector is padded and the list returned
VCReturn ==
    /\ proc = "VectorSpace"
    /\ mode = "vectorize_corpus"
    /\ ~aborted
    /\ result' = [kind |-> "vectors",
                  val |-> [k \in 1..Len(vectors) |-> pad(vectors[k])]]
    /\ last_op' = "vectorize_corpus"
    /\ mode' = "idle"
    /\ vectors' = <<>>
    /\ UNCHANGED <<otherVars, by_index, by_token, token_seq, taken, v_list,
                   arg, aborted>>

NextVectorSpace ==
    \/ VSGetIndex
    \/ VSLookupToken
    \/ VSLookupIndex
    \/ VSVectorize
    \/ VSStep
    \/ VSVectorizeReturn
    \/ VSCorpus
    \/ VCDoc
    \/ VCReturn

SpecVectorSpace == InitVectorSpace /\ [][NextVectorSpace]_vars

\* by_token and by_index are inverse mappings over the indexes 0..n-1
MutuallyInverse ==
    /\ DOMAIN by_index = 0..(Cardinality(DOMAIN by_token) - 1)
    /\ \A t \in DOMAIN by_token :
          by_token[t] \in DOMAIN by_index /\ by_index[by_token[t]] = t
    /\ \A i \in DOMAIN by_index :
          by_index[i] \in DOMAIN by_token /\ by_token[by_index[i]] = i

\* a lookup that has just returned gave the entry of a known key, and None
\* for an unknown one
LookupAnswers ==
    /\ last_op = "lookup_token" =>
          IF arg \in DOMAIN by_index
          THEN result.kind = "token" /\ result.val = by_index[arg]
          ELSE result.kind = "None"
    /\ last_op = "lookup_index" =>
          IF arg \in DOMAIN by_token
          THEN result.kind = "index" /\ result.val = by_token[arg]
          ELSE result.kind = "None"

\* at every round of vectorize's loop v has one slot per known token, so the
\* index of a known token is below len(v) and that of a new one is len(v);
\* the vectors returned have one slot per known token
VectorFits ==
    /\ ~aborted
    /\ mode = "vectorize" =>
          /\ Len(v_list) = Cardinality(DOMAIN by_token)
          /\ SumSeq(v_list) = taken
    /\ \A k \in 1..Len(vectors) : Len(vectors[k]) <= Cardinality(DOMAIN by_token)
    /\ last_op = "vectorize" => Len(result.val) = Cardinality(DOMAIN by_token)
    /\ last_op = "vectorize_corpus" =>
          \A k \in 1..Len(result.val) :
              Len(result.val[k]) = Cardinality(DOMAIN by_token)

\* what a step may do to the space: an index once assigned stays, a lookup
\* changes neither dict, and the index a round of vectorize obtains is at
\* most len(v)
VSStepRule ==
    /\ \A t \in DOMAIN by_token :
          t \in DOMAIN by_token' /\ by_token'[t] = by_token[t]
    /\ \A i \in DOMAIN by_index :
          i \in DOMAIN by_index' /\ by_index'[i] = by_index[i]
    /\ last_op' \in {"lookup_token", "lookup_index"} =>
          by_token' = by_token /\ by_index' = by_index
    /\ mode = "vectorize" /\ taken' = taken + 1 =>
          by_token'[token_seq[taken + 1]] <= Len(v_list)

\* C15: whatever calls of get_index, vectorize, vectorize_corpus,
\* lookup_token and lookup_index are made on an empty VectorSpace, by_token
\* and by_index stay inverse mappings over the indexes 0..n-1 of the n known
\* tokens, an index once assigned never changes, a lookup returns None for
\* an unknown key and changes nothing, and every index vectorize obtains is
\* at most len(v), so that 'Invalid index' is never raised.
C15_IndexConsistency ==
    /\ [](proc = "VectorSpace" => MutuallyInverse /\ LookupAnswers /\ VectorFits)
    /\ [][proc = "VectorSpace" => VSStepRule]_vars

\* C15 witness: vectorize_corpus has returned two vectors for a space of
\* three tokens; the first document had fewer tokens than the space has now
\* and its vector is padded, the second counted a token twice.
C15_Witness ==
    /\ proc = "VectorSpace"
    /\ last_op = "vectorize_corpus"
    /\ Cardinality(DOMAIN by_token) = 3
    /\ Len(result.val) = 2
    /\ result.val[1] = <<1, 1, 0>>
    /\ \E k \in 1..3 : result.val[2][k] = 2

\* a lookup of an unknown key has returned None from a space that knows a token
C15_WitnessLookup ==
    /\ proc = "VectorSpace"
    /\ last_op = "lookup_index"
    /\ by_token # <<>>
    /\ result.kind = "None"

----------------------------------------------------------------------------
(* The whole model: a run executes one of the operations.                  *)

Init ==
    \/ InitWindows
    \/ InitQuotePoint
    \/ InitInternalStyle
    \/ InitTokenize
    \/ InitStyleTokenize
    \/ InitTagger
    \/ InitPatterns
    \/ InitQuotes
    \/ InitVectorSpace

Next ==
    \/ NextWindows
    \/ NextQuotePoint
    \/ NextInternalStyle
    \/ NextTokenize
    \/ NextStyleTokenize
    \/ NextTagger
    \/ NextQuotes
    \/ NextVectorSpace

Spec == Init /\ [][Next]_vars

====
